---- MODULE Spec2Model ----
(***************************************************************************)
(* Model of the colour engine of app.py: Color construction and HSL        *)
(* adjustment, the WCAG accessibility check, PaletteGenerator.generate     *)
(* with its lock and history log, and GradientGenerator.linear.            *)
(*                                                                         *)
(* Floats are modelled in fixed point: a float x is the integer x * FP.    *)
(* FP = 4 * 255 represents k/255, k/510, 0.15, 0.2 and 1/6, 1/3, 2/3       *)
(* exactly; a quotient that is not a multiple of 1/FP is rounded down.     *)
(* A Python call yields either Ok(value) or Raise(exception name).         *)
(***************************************************************************)
EXTENDS Integers, Sequences, FiniteSets, TLC

VARIABLES
    lock,      \* PaletteGenerator.lock: the thread holding it, or NoThread
    history,   \* PaletteGenerator.history
    pc,        \* per thread: position inside generate
    args,      \* per thread: arguments of its current / last generate call
    palette,   \* per thread: the local list `palette`
    result,    \* per thread: how its last generate call ended
    calls,     \* number of generate calls started so far
    hex_str,   \* the hex string being typed before Color.from_hex reads it
    call       \* the last call of a pure function: its inputs and outcome

vars == <<lock, history, pc, args, palette, result, calls, hex_str, call>>

genVars == <<lock, history, pc, args, palette, result, calls>>

-----------------------------------------------------------------------------
(* Arithmetic helpers *)

RGB_MAX == 255

FP == 4 * RGB_MAX

Max2(a, b) == IF a >= b THEN a ELSE b

Min2(a, b) == IF a <= b THEN a ELSE b

Max3(a, b, c) == Max2(a, Max2(b, c))

Min3(a, b, c) == Min2(a, Min2(b, c))

Abs(a) == IF a >= 0 THEN a ELSE -a

\* float division, rounded down to a multiple of 1/FP; Python's // on ints
FloorDiv(a, b) == IF b > 0 THEN a \div b ELSE (-a) \div (-b)

\* int(x) of a float: truncation toward zero
TruncDiv(a, b) == IF a >= 0 THEN a \div b ELSE -((-a) \div b)

Ok(v) == [ok |-> TRUE, val |-> v]

Raise(e) == [ok |-> FALSE, err |-> e]

-----------------------------------------------------------------------------
(* Data classes *)

Clamp(x, lo, hi) == Max2(lo, Min2(hi, x))

\* RGB.__post_init__: channels clamped to 0..255, alpha to 0.0..1.0
RGB(r, g, b, a) ==
    [r |-> Clamp(r, 0, RGB_MAX), g |-> Clamp(g, 0, RGB_MAX),
     b |-> Clamp(b, 0, RGB_MAX), a |-> Clamp(a, 0, FP)]

HSV(h, s, v) == [h |-> h, s |-> s, v |-> v]

HSL(h, s, l) == [h |-> h, s |-> s, l |-> l]

\* the dataclass Color; tags defaults to the empty list
Color(rgb, hsv, hsl, name) ==
    [rgb |-> rgb, hsv |-> hsv, hsl |-> hsl, name |-> name, tags |-> <<>>]

\* the attributes a Color instance answers to (fields and methods)
ColorAttrs ==
    {"rgb", "hsv", "hsl", "name", "tags", "from_hex", "from_rgb", "lighten",
     "darken", "saturate", "desaturate", "_from_hsl", "contrast_ratio",
     "is_accessible_with"}

HexDigitChars == <<"0", "1", "2", "3", "4", "5", "6", "7",
                   "8", "9", "a", "b", "c", "d", "e", "f">>

\* f"{n:02x}" for n in 0..255
Hex2(n) == <<HexDigitChars[(n \div 16) + 1], HexDigitChars[(n % 16) + 1]>>

RGB_to_hex(c) == <<"#">> \o Hex2(c.r) \o Hex2(c.g) \o Hex2(c.b)

-----------------------------------------------------------------------------
(* colorsys, as called by Color *)

\* colorsys.rgb_to_hsv(r/255, g/255, b/255); h is a fraction of the circle
rgb_to_hsv(r, g, b) ==
    LET maxc == Max3(r, g, b)
        minc == Min3(r, g, b)
        rangec == maxc - minc
        v == maxc * (FP \div RGB_MAX)
        num == IF r = maxc THEN g - b
               ELSE IF g = maxc THEN 2 * rangec + (b - r)
               ELSE 4 * rangec + (r - g)
    IN  IF minc = maxc THEN Ok(<<0, 0, v>>)
        ELSE IF maxc = 0 THEN Raise("ZeroDivisionError")
        ELSE Ok(<<FloorDiv(num * FP, 6 * rangec) % FP,
                  FloorDiv(rangec * FP, maxc), v>>)

ONE_SIXTH == FP \div 6

ONE_THIRD == FP \div 3

TWO_THIRD == (2 * FP) \div 3

\* colorsys._v
_v(m1, m2, hue) ==
    LET hu == hue % FP
    IN  IF hu < ONE_SIXTH THEN m1 + FloorDiv((m2 - m1) * hu * 6, FP)
        ELSE IF 2 * hu < FP THEN m2
        ELSE IF hu < TWO_THIRD
             THEN m1 + FloorDiv((m2 - m1) * (TWO_THIRD - hu) * 6, FP)
        ELSE m1

\* colorsys.hls_to_rgb(h, l, s)
hls_to_rgb(h, l, s) ==
    IF s = 0 THEN <<l, l, l>>
    ELSE LET m2 == IF 2 * l <= FP THEN FloorDiv(l * (FP + s), FP)
                   ELSE l + s - FloorDiv(l * s, FP)
             m1 == 2 * l - m2
         IN  <<_v(m1, m2, h + ONE_THIRD), _v(m1, m2, h), _v(m1, m2, h - ONE_THIRD)>>

-----------------------------------------------------------------------------
(* Color *)

\* Color.from_rgb: rgb is clamped by RGB, hsv and hsl come from r, g, b as given
from_rgb(r, g, b, name, a) ==
    LET rgb == RGB(r, g, b, a)
        c == rgb_to_hsv(r, g, b)
    IN  IF ~c.ok THEN c
        ELSE LET h_deg == c.val[1] * 360
                 s == c.val[2]
                 v == c.val[3]
                 l == FloorDiv((2 * FP - s) * v, 2 * FP)
                 s_hsl == IF l \in {0, FP} THEN 0
                          ELSE FloorDiv(s * v, FP - Abs(2 * l - FP))
             IN  Ok(Color(rgb, HSV(h_deg, s, v), HSL(h_deg, s_hsl, l), name))

\* Color._from_hsl(self, h, s, l)
_from_hsl(h, s, l) ==
    LET c == hls_to_rgb(FloorDiv(h, 360), l, s)
        ints == <<TruncDiv(c[1] * RGB_MAX, FP), TruncDiv(c[2] * RGB_MAX, FP),
                  TruncDiv(c[3] * RGB_MAX, FP)>>
    IN  CHOOSE color \in {from_rgb(i[1], i[2], i[3], <<>>, FP) : i \in {ints}} : TRUE

\* Color._from_hsl reached through the class: the positional arguments are
\* bound to (self, h, s, l), so any other number of them is a TypeError
Color_from_hsl(positional) ==
    IF Len(positional) # 4 THEN Raise("TypeError")
    ELSE _from_hsl(positional[2], positional[3], positional[4])

\* the lightness lighten hands to _from_hsl
lightenL(c, amount) == Min2(FP, c.hsl.l + amount)

\* the saturation saturate hands to _from_hsl
saturateS(c, amount) == Min2(FP, c.hsl.s + amount)

\* self._from_hsl(h, s, l) as lighten calls it: self and the three arguments
lightenArgs(c, amount) == <<c, c.hsl.h, c.hsl.s, lightenL(c, amount)>>

\* self._from_hsl(h, s, l) as saturate calls it
saturateArgs(c, amount) == <<c, c.hsl.h, saturateS(c, amount), c.hsl.l>>

lighten(c, amount) == Color_from_hsl(lightenArgs(c, amount))

darken(c, amount) == lighten(c, -amount)

saturate(c, amount) == Color_from_hsl(saturateArgs(c, amount))

desaturate(c, amount) == saturate(c, -amount)

\* c.to_hex() on a Color: the method is defined on RGB only
Color_to_hex(c) ==
    IF "to_hex" \in ColorAttrs THEN Ok(RGB_to_hex(c.rgb))
    ELSE Raise("AttributeError")

\* relative_luminance: the loop assigns into a temporary list, so r, g, b
\* stay the plain channel fractions: 0.2126 r + 0.7152 g + 0.0722 b,
\* in units of 1/(5000 * 255)
relative_luminance(c) == 1063 * c.r + 3576 * c.g + 361 * c.b

\* 0.05 in the units of relative_luminance
LumOffset == 250 * RGB_MAX

\* Color.contrast_ratio, as the exact fraction <<numerator, denominator>>
contrast_ratio(c, other) ==
    LET l1 == relative_luminance(c.rgb)
        l2 == relative_luminance(other.rgb)
    IN  <<Max2(l1, l2) + LumOffset, Min2(l1, l2) + LumOffset>>

Tenth == FP \div 10

WCAG_AA_NORMAL == 45 * Tenth

WCAG_AA_LARGE == 30 * Tenth

WCAG_AAA_NORMAL == 70 * Tenth

WCAG_AAA_LARGE == 45 * Tenth

\* ratio >= threshold, for the fraction ratio and a threshold in tenths
AtLeast(ratio, threshold) == ratio[1] * 10 >= (threshold \div Tenth) * ratio[2]

LowerLetters == <<"a", "e", "g", "l", "m", "n", "o", "r">>

UpperLetters == <<"A", "E", "G", "L", "M", "N", "O", "R">>

\* str.upper and str.lower, character by character
upper(text) ==
    [i \in 1..Len(text) |->
       IF \E k \in 1..Len(LowerLetters) : LowerLetters[k] = text[i]
       THEN UpperLetters[CHOOSE k \in 1..Len(LowerLetters) : LowerLetters[k] = text[i]]
       ELSE text[i]]

lower(text) ==
    [i \in 1..Len(text) |->
       IF \E k \in 1..Len(UpperLetters) : UpperLetters[k] = text[i]
       THEN LowerLetters[CHOOSE k \in 1..Len(UpperLetters) : UpperLetters[k] = text[i]]
       ELSE text[i]]

AA == <<"A", "A">>

AAA == <<"A", "A", "A">>

normal == <<"n", "o", "r", "m", "a", "l">>

large == <<"l", "a", "r", "g", "e">>

\* the table with the two AA rows exchanged
thresholdTableExchanged ==
    {<<<<AA, normal>>, WCAG_AA_LARGE>>, <<<<AA, large>>, WCAG_AA_NORMAL>>,
     <<<<AAA, normal>>, WCAG_AAA_NORMAL>>, <<<<AAA, large>>, WCAG_AAA_LARGE>>}

\* the dict literal of is_accessible_with, as a set of <<key, value>> pairs
thresholdTable ==
    {<<<<AA, normal>>, WCAG_AA_NORMAL>>, <<<<AA, large>>, WCAG_AA_LARGE>>,
     <<<<AAA, normal>>, WCAG_AAA_NORMAL>>, <<<<AAA, large>>, WCAG_AAA_LARGE>>}

\* Color.is_accessible_with(other, level, size)
is_accessible_with(c, other, level, size) ==
    LET ratio == contrast_ratio(c, other)
        key == <<upper(level), lower(size)>>
    IN  IF \E e \in thresholdTable : e[1] = key
        THEN LET threshold == (CHOOSE e \in thresholdTable : e[1] = key)[2]
             IN  Ok(AtLeast(ratio, threshold))
        ELSE Raise("KeyError")

-----------------------------------------------------------------------------
(* Color.from_hex *)

HexDigitSet == {HexDigitChars[i] : i \in 1..16} \cup {"A", "B", "C", "D", "E", "F"}

Whitespace == {" "}

DigitVal(ch) ==
    CASE ch \in {"a", "A"} -> 10
      [] ch \in {"b", "B"} -> 11
      [] ch \in {"c", "C"} -> 12
      [] ch \in {"d", "D"} -> 13
      [] ch \in {"e", "E"} -> 14
      [] ch \in {"f", "F"} -> 15
      [] OTHER -> (CHOOSE i \in 1..10 : HexDigitChars[i] = ch) - 1

RECURSIVE lstrip(_, _)
\* str.lstrip(chars): drops every leading character that is in chars
lstrip(s, chars) ==
    IF s # <<>> /\ Head(s) \in chars THEN lstrip(Tail(s), chars) ELSE s

RECURSIVE rstrip(_, _)
rstrip(s, chars) ==
    IF s # <<>> /\ s[Len(s)] \in chars
    THEN rstrip(SubSeq(s, 1, Len(s) - 1), chars) ELSE s

RECURSIVE DigitsValue(_, _, _)
\* the digits of int(): hex digits, single underscores only between digits;
\* -1 when the text is not a number
DigitsValue(s, acc, prevDigit) ==
    IF s = <<>> THEN (IF prevDigit THEN acc ELSE -1)
    ELSE IF Head(s) \in HexDigitSet
         THEN DigitsValue(Tail(s), 16 * acc + DigitVal(Head(s)), TRUE)
    ELSE IF Head(s) = "_" /\ prevDigit THEN DigitsValue(Tail(s), acc, FALSE)
    ELSE -1

\* int(text, 16): surrounding whitespace and one sign are accepted
int16(text) ==
    LET t == rstrip(lstrip(text, Whitespace), Whitespace)
        signed == t # <<>> /\ Head(t) \in {"+", "-"}
        body == IF signed THEN Tail(t) ELSE t
        mag == DigitsValue(body, 0, FALSE)
    IN  IF mag < 0 THEN Raise("ValueError")
        ELSE IF signed /\ Head(t) = "-" THEN Ok(-mag)
        ELSE Ok(mag)

\* hex_str[i:j] for 0 <= i <= j <= len
Slice(s, i, j) == SubSeq(s, i + 1, j)

from_hex(hex_in, name) ==
    LET h == lstrip(hex_in, {"#"})
        r == int16(Slice(h, 0, 2))
        g == int16(Slice(h, 2, 4))
        b == int16(Slice(h, 4, 6))
        a == int16(Slice(h, 6, 8))
    IN  IF Len(h) = 6 THEN
            IF ~r.ok THEN r ELSE IF ~g.ok THEN g ELSE IF ~b.ok THEN b
            ELSE from_rgb(r.val, g.val, b.val, name, FP)
        ELSE IF Len(h) = 8 THEN
            IF ~r.ok THEN r ELSE IF ~g.ok THEN g ELSE IF ~b.ok THEN b
            ELSE IF ~a.ok THEN a
            ELSE from_rgb(r.val, g.val, b.val, name, a.val * (FP \div RGB_MAX))
        ELSE Raise("ValueError")

-----------------------------------------------------------------------------
(* PaletteGenerator.generate *)

PaletteType ==
    {"MONOCHROMATIC", "ANALOGOUS", "COMPLEMENTARY", "SPLIT_COMPLEMENTARY",
     "TRIADIC", "TETRADIC", "SQUARE", "CUSTOM"}

\* seq[:stop] as Python slices it, a negative stop counting from the end
SliceTo(seq, stop) ==
    LET n == Len(seq)
        e == IF stop < 0 THEN Max2(0, stop + n) ELSE Min2(stop, n)
    IN  SubSeq(seq, 1, e)

\* c.name = name on the outcome of a constructor call
Named(res, name) ==
    IF res.ok THEN Ok([res.val EXCEPT !.name = name]) ELSE res

RECURSIVE AppendEach(_, _)
\* palette.append(c) for each c in turn; the first call that raised ends it
AppendEach(pal, results) ==
    IF Len(results) = 0 THEN Ok(pal)
    ELSE IF ~Head(results).ok THEN Head(results)
    ELSE AppendEach(Append(pal, Head(results).val), Tail(results))

HueShift(h, angle) == (h + angle * FP) % (360 * FP)

analogousAngles == <<-30, -15, 15, 30>>

triadicAngles == <<120, 240>>

tetradicAngles == <<90, 180, 270>>

\* one hue-rotated colour, built through the class attribute Color._from_hsl
Rotated(base, angle) ==
    Color_from_hsl(<<HueShift(base.hsv.h, angle), base.hsl.s, base.hsl.l>>)

\* palette = [base_color] followed by the branch of the harmony rule
RuleColors(base, ptype, count) ==
    LET h == base.hsv.h
    IN  CASE ptype = "MONOCHROMATIC" ->
               IF count - 1 = 0 THEN Raise("ZeroDivisionError")
               ELSE LET step == FloorDiv((4 * FP) \div 5, count - 1)
                    IN  AppendEach(<<base>>,
                          [i \in 1..(count - 1) |->
                             Named(Color_from_hsl(<<h, base.hsl.s, i * step>>),
                                   (IF base.name = <<>> THEN <<"Mono">> ELSE base.name)
                                      \o <<ToString(i)>>)])
          [] ptype = "ANALOGOUS" ->
               LET angles == SliceTo(analogousAngles, count - 1)
               IN  AppendEach(<<base>>,
                     [i \in 1..Len(angles) |->
                        Named(Rotated(base, angles[i]), <<"Analogous", ToString(i)>>)])
          [] ptype = "COMPLEMENTARY" ->
               LET comp == Named(Rotated(base, 180), <<"Complementary">>)
               IN  IF ~comp.ok THEN comp
                   ELSE AppendEach(<<base, comp.val>>,
                          [i \in 1..(count - 2) |->
                             Named(lighten(comp.val, i * (FP \div 5)),
                                   <<"Comp Tint", ToString(i)>>)])
          [] ptype = "TRIADIC" ->
               AppendEach(<<base>>,
                 [i \in 1..Len(triadicAngles) |->
                    Named(Rotated(base, triadicAngles[i]),
                          <<"Triadic", ToString(triadicAngles[i])>>)])
          [] ptype = "TETRADIC" ->
               AppendEach(<<base>>,
                 [i \in 1..Len(tetradicAngles) |->
                    Named(Rotated(base, tetradicAngles[i]),
                          <<"Tetradic", ToString(tetradicAngles[i])>>)])
          [] OTHER -> Ok(<<base>>)

\* one pass of `while len(palette) < count`
Shade(base, pal) ==
    Named(darken(base, ((3 * FP) \div 20) * Len(pal)), <<"Shade", ToString(Len(pal))>>)

RECURSIVE ToHexEach(_)
\* [c.to_hex() for c in palette]
ToHexEach(pal) ==
    IF Len(pal) = 0 THEN Ok(<<>>)
    ELSE LET x == Color_to_hex(Head(pal))
             rest == ToHexEach(Tail(pal))
         IN  IF ~x.ok THEN x ELSE IF ~rest.ok THEN rest
             ELSE Ok(<<x.val>> \o rest.val)

\* the dict handed to self.history.append
HistoryRecord(base, ptype, pal) ==
    LET b == Color_to_hex(base)
        cs == ToHexEach(pal)
    IN  IF ~b.ok THEN b ELSE IF ~cs.ok THEN cs
        ELSE Ok([type |-> ptype, base |-> b.val, colors |-> cs.val])

-----------------------------------------------------------------------------
(* Threads calling generate on one PaletteGenerator *)

Threads == {"t1", "t2"}

NoThread == "none"

MaxCalls == 3

MaxCount == 3

Counts == -1..MaxCount

\* Color.from_hex("#6200EE", "Base") as the GUI builds it, and
\* Color.from_hex("#202020") as the CLI builds it
BaseColors ==
    {from_hex(<<"#", "6", "2", "0", "0", "E", "E">>, <<"Base">>).val,
     from_hex(<<"#", "2", "0", "2", "0", "2", "0">>, <<>>).val}

NotCalled == Raise("NotCalled")

InBody == {"rule", "pad", "log"}

Init ==
    /\ lock = NoThread
    /\ history = <<>>
    /\ pc = [t \in Threads |-> "idle"]
    /\ args = [t \in Threads |-> [base_color |-> <<>>, palette_type |-> "", count |-> 0]]
    /\ palette = [t \in Threads |-> <<>>]
    /\ result = [t \in Threads |-> NotCalled]
    /\ calls = 0
    /\ hex_str = <<>>
    /\ call = [fn |-> "none"]

\* a thread calls generator.generate(base_color, palette_type, count), the
\* arguments drawn from the given sets
CallWith(t, bases, ptypes, counts) ==
    /\ pc[t] \in {"idle", "done"}
    /\ calls < MaxCalls
    /\ \E base \in bases, ptype \in ptypes, count \in counts :
          args' = [args EXCEPT ![t] =
                     [base_color |-> base, palette_type |-> ptype, count |-> count]]
    /\ pc' = [pc EXCEPT ![t] = "acquire"]
    /\ palette' = [palette EXCEPT ![t] = <<>>]
    /\ result' = [result EXCEPT ![t] = NotCalled]
    /\ calls' = calls + 1
    /\ UNCHANGED <<lock, history, hex_str, call>>

\* a thread calls generator.generate(base_color, palette_type, count)
Call(t) == CallWith(t, BaseColors, PaletteType, Counts)

\* the with block entered without waiting for the lock to be free
AcquireNoWait(t) ==
    /\ pc[t] = "acquire"
    /\ lock' = t
    /\ pc' = [pc EXCEPT ![t] = "rule"]
    /\ UNCHANGED <<history, args, palette, result, calls, hex_str, call>>

\* `with self.lock:` entered
Acquire(t) ==
    /\ pc[t] = "acquire"
    /\ lock = NoThread
    /\ lock' = t
    /\ pc' = [pc EXCEPT ![t] = "rule"]
    /\ UNCHANGED <<history, args, palette, result, calls, hex_str, call>>

\* the with block left without releasing the lock
LeaveHoldingLock(t, res) ==
    /\ lock' = lock
    /\ pc' = [pc EXCEPT ![t] = "done"]
    /\ result' = [result EXCEPT ![t] = res]

\* the with block is left, by return or by an exception: the lock is released
Leave(t, res) ==
    /\ lock' = NoThread
    /\ pc' = [pc EXCEPT ![t] = "done"]
    /\ result' = [result EXCEPT ![t] = res]

\* palette = [base_color] and the branch of the harmony rule
Rule(t) ==
    /\ pc[t] = "rule"
    /\ LET r == RuleColors(args[t].base_color, args[t].palette_type, args[t].count)
       IN  IF r.ok
           THEN /\ palette' = [palette EXCEPT ![t] = r.val]
                /\ pc' = [pc EXCEPT ![t] = "pad"]
                /\ UNCHANGED <<lock, result>>
           ELSE /\ Leave(t, r)
                /\ UNCHANGED palette
    /\ UNCHANGED <<history, args, calls, hex_str, call>>

\* `while len(palette) < count`: one shade appended, or the loop is left
Pad(t) ==
    /\ pc[t] = "pad"
    /\ IF Len(palette[t]) < args[t].count
       THEN LET shade == Shade(args[t].base_color, palette[t])
            IN  IF shade.ok
                THEN /\ palette' = [palette EXCEPT ![t] = Append(@, shade.val)]
                     /\ UNCHANGED <<lock, pc, result>>
                ELSE /\ Leave(t, shade)
                     /\ UNCHANGED palette
       ELSE /\ pc' = [pc EXCEPT ![t] = "log"]
            /\ UNCHANGED <<lock, palette, result>>
    /\ UNCHANGED <<history, args, calls, hex_str, call>>

\* self.history.append({...}); return palette
Log(t) ==
    /\ pc[t] = "log"
    /\ LET rec == HistoryRecord(args[t].base_color, args[t].palette_type, palette[t])
       IN  IF rec.ok
           THEN /\ history' = Append(history, rec.val)
                /\ Leave(t, Ok(palette[t]))
           ELSE /\ Leave(t, rec)
                /\ UNCHANGED history
    /\ UNCHANGED <<args, palette, calls, hex_str, call>>

Next ==
    \E t \in Threads : Call(t) \/ Acquire(t) \/ Rule(t) \/ Pad(t) \/ Log(t)

Spec == Init /\ [][Next]_vars

\* Arguments that take generate along each of its ways out: the rule raises
\* (TRIADIC; MONOCHROMATIC with count 1), or the rule and the padding pass
\* and the history record raises (SQUARE, padded up to count).
FairBases == {from_hex(<<"#", "6", "2", "0", "0", "E", "E">>, <<"Base">>).val}

FairTypes == {"MONOCHROMATIC", "TRIADIC", "SQUARE"}

FairCounts == {1, MaxCount}

FairNext ==
    \E t \in Threads :
       \/ CallWith(t, FairBases, FairTypes, FairCounts)
       \/ Acquire(t) \/ Rule(t) \/ Pad(t) \/ Log(t)

\* Fair scheduling: a thread inside generate keeps running, and a thread
\* waiting for the lock gets it if the lock is free again and again.  The
\* lock does not depend on the arguments of generate other than through
\* the way the call ends, so the calls draw from the sets above.
FairSpec ==
    /\ Init
    /\ [][FairNext]_vars
    /\ \A t \in Threads :
          /\ SF_vars(Acquire(t))
          /\ WF_vars(Rule(t))
          /\ WF_vars(Pad(t))
          /\ WF_vars(Log(t))

-----------------------------------------------------------------------------
(* Color.from_hex on typed strings *)

MaxHexLen == 8

\* a hex digit, a letter that is no hex digit, '#', a sign, a space, an underscore
HexAlphabet == {"f", "g", "#", "-", " ", "_"}

\* one more character of the hex string is entered
TypeChar ==
    /\ call.fn = "none"
    /\ Len(hex_str) < MaxHexLen
    /\ \E ch \in HexAlphabet : hex_str' = Append(hex_str, ch)
    /\ UNCHANGED <<call, genVars>>

\* Color.from_hex(hex_str)
CallFromHex ==
    /\ call.fn = "none"
    /\ call' = [fn |-> "from_hex", hex_in |-> hex_str, out |-> from_hex(hex_str, <<>>)]
    /\ UNCHANGED <<hex_str, genVars>>

NextHex == TypeChar \/ CallFromHex

SpecHex == Init /\ [][NextHex]_vars

-----------------------------------------------------------------------------
(* GradientGenerator.linear *)

\* int(a + (j / per_segment) * (b - a)) for channels a, b
Lerp(a, b, j, per_segment) == TruncDiv(a * per_segment + j * (b - a), per_segment)

\* the inner loop `for j in range(per_segment)` between c1 and c2
Segment(c1, c2, per_segment) ==
    [k \in 1..per_segment |->
       from_rgb(Lerp(c1.rgb.r, c2.rgb.r, k - 1, per_segment),
                Lerp(c1.rgb.g, c2.rgb.g, k - 1, per_segment),
                Lerp(c1.rgb.b, c2.rgb.b, k - 1, per_segment), <<>>, FP)]

RECURSIVE SegmentsFrom(_, _, _)
\* the outer loop `for i in range(segments)`, from segment i on
SegmentsFrom(colors, i, per_segment) ==
    IF i > Len(colors) - 1 THEN <<>>
    ELSE Segment(colors[i], colors[i + 1], per_segment)
           \o SegmentsFrom(colors, i + 1, per_segment)

linear(colors, steps) ==
    IF Len(colors) < 2 THEN Ok(colors)
    ELSE LET segments == Len(colors) - 1
             per_segment == FloorDiv(steps, segments)
             gradient == AppendEach(<<>>, SegmentsFrom(colors, 1, per_segment))
         IN  IF ~gradient.ok THEN gradient
             ELSE Ok(SliceTo(Append(gradient.val, colors[Len(colors)]), steps))

-----------------------------------------------------------------------------
(* Calls of the pure operations.  Their results do not depend on earlier   *)
(* calls, so a behaviour follows one call: call holds its inputs and       *)
(* its outcome.                                                            *)

Channels == {0, 128, 255}

\* the colours Color.from_rgb builds from in-range channels
SomeColors == {from_rgb(r, g, b, <<>>, FP).val : r, g, b \in Channels}

MaxAmount == 30

\* amounts from -MaxAmount/20 to MaxAmount/20 in steps of 0.05
Amounts == {k * (FP \div 20) : k \in (-MaxAmount)..MaxAmount}

Levels == {AA, AAA, <<"a", "a">>, <<"A", "a", "a">>, <<"A">>, <<>>, normal}

Sizes == {normal, large, <<"L", "a", "r", "g", "e">>, upper(normal), <<>>, AA}

CallLighten ==
    /\ call.fn = "none"
    /\ \E c \in SomeColors, amount \in Amounts :
          call' = [fn |-> "lighten", self |-> c, amount |-> amount,
                   handed |-> lightenArgs(c, amount), out |-> lighten(c, amount)]
    /\ UNCHANGED <<hex_str, genVars>>

CallDarken ==
    /\ call.fn = "none"
    /\ \E c \in SomeColors, amount \in Amounts :
          call' = [fn |-> "darken", self |-> c, amount |-> amount,
                   handed |-> lightenArgs(c, -amount), out |-> darken(c, amount)]
    /\ UNCHANGED <<hex_str, genVars>>

CallSaturate ==
    /\ call.fn = "none"
    /\ \E c \in SomeColors, amount \in Amounts :
          call' = [fn |-> "saturate", self |-> c, amount |-> amount,
                   handed |-> saturateArgs(c, amount), out |-> saturate(c, amount)]
    /\ UNCHANGED <<hex_str, genVars>>

CallDesaturate ==
    /\ call.fn = "none"
    /\ \E c \in SomeColors, amount \in Amounts :
          call' = [fn |-> "desaturate", self |-> c, amount |-> amount,
                   handed |-> saturateArgs(c, -amount), out |-> desaturate(c, amount)]
    /\ UNCHANGED <<hex_str, genVars>>

CallIsAccessibleWith ==
    /\ call.fn = "none"
    /\ \E c \in SomeColors, other \in SomeColors, level \in Levels, size \in Sizes :
          call' = [fn |-> "is_accessible_with", self |-> c, other |-> other,
                   level |-> level, size |-> size,
                   ratio |-> contrast_ratio(c, other),
                   out |-> is_accessible_with(c, other, level, size)]
    /\ UNCHANGED <<hex_str, genVars>>

MaxExcess == 2

\* integers handed to Color.from_rgb: in range, below 0 and above 255
ChannelInputs ==
    Channels \cup {0 - e : e \in 1..MaxExcess} \cup {RGB_MAX + e : e \in 1..MaxExcess}

\* Color.from_rgb(r, g, b)
CallFromRgb ==
    /\ call.fn = "none"
    /\ \E r \in ChannelInputs, g \in ChannelInputs, b \in ChannelInputs :
          call' = [fn |-> "from_rgb", r |-> r, g |-> g, b |-> b,
                   out |-> from_rgb(r, g, b, <<>>, FP)]
    /\ UNCHANGED <<hex_str, genVars>>

NextColor ==
    \/ CallLighten \/ CallDarken \/ CallSaturate \/ CallDesaturate
    \/ CallIsAccessibleWith \/ CallFromRgb

SpecColor == Init /\ [][NextColor]_vars

MaxColors == 4

MaxSteps == 6

Steps == -1..MaxSteps

GradColors ==
    {from_rgb(0, 0, 0, <<>>, FP).val, from_rgb(255, 255, 255, <<>>, FP).val,
     from_rgb(98, 0, 238, <<>>, FP).val}

ColorLists == UNION {[1..n -> GradColors] : n \in 0..MaxColors}

CallLinear ==
    /\ call.fn = "none"
    /\ \E colors \in ColorLists, steps \in Steps :
          call' = [fn |-> "linear", colors |-> colors, steps |-> steps,
                   out |-> linear(colors, steps)]
    /\ UNCHANGED <<hex_str, genVars>>

\* int(math.sqrt(n)) for an integer n >= 0
IntSqrt(n) == CHOOSE k \in 0..n : k * k <= n /\ n < (k + 1) * (k + 1)

\* seq[index] for index >= 0, as Python indexes a list
ItemAt(seq, index) ==
    IF index < Len(seq) THEN Ok(seq[index + 1]) ELSE Raise("IndexError")

\* GradientGenerator.radial(colors, size): the grid as a list of rows
radial(colors, size) ==
    LET center == FloorDiv(size, 2)
        radius == center
        gradient_colors == linear(colors, radius + 1)
        index(y, x) ==
            Min2(IntSqrt((x - center) * (x - center) + (y - center) * (y - center)),
                 radius)
        cell(y, x) == ItemAt(gradient_colors.val, index(y, x))
    IN  IF ~gradient_colors.ok THEN gradient_colors
        ELSE IF \E y \in 0..(size - 1), x \in 0..(size - 1) : ~cell(y, x).ok
        THEN Raise("IndexError")
        ELSE Ok([y \in 1..size |-> [x \in 1..size |-> cell(y - 1, x - 1).val]])

MaxSize == 5

GridSizes == 0..MaxSize

CallRadial ==
    /\ call.fn = "none"
    /\ \E colors \in ColorLists, size \in GridSizes :
          call' = [fn |-> "radial", colors |-> colors, size |-> size,
                   out |-> radial(colors, size)]
    /\ UNCHANGED <<hex_str, genVars>>

NextGradient == CallLinear \/ CallRadial

SpecGradient == Init /\ [][NextGradient]_vars

-----------------------------------------------------------------------------
(* Properties of generate under Spec *)

ListedRules == {"MONOCHROMATIC", "ANALOGOUS", "COMPLEMENTARY", "TRIADIC", "TETRADIC"}

\* C1: at most one thread is inside the body of generate (building the
\* palette or appending to history) at any time.
MutualExclusion == Cardinality({t \in Threads : pc[t] \in InBody}) <= 1

\* C1 witness: one thread is inside the body while another has called
\* generate and waits for the lock.
MutualExclusionWitness ==
    \E t, u \in Threads : t # u /\ pc[t] \in InBody /\ lock = t /\ pc[u] = "acquire"

\* C2: the history log has at least as many records as generate calls have
\* completed, and the record of every completed call lists at least as many
\* colours as the call requested.  The completed calls counted here are each
\* thread's latest one, when its count was at least 1.
HistoryCoversCompletedCalls ==
    /\ Len(history) >=
          Cardinality({t \in Threads : pc[t] = "done" /\ args[t].count >= 1})
    /\ \A t \in Threads :
          (pc[t] = "done" /\ args[t].count >= 1) =>
             \E i \in 1..Len(history) :
                /\ history[i].type = args[t].palette_type
                /\ Len(history[i].colors) >= args[t].count

\* C3: for a listed harmony rule and count >= 1, generate ends by returning
\* a palette, never in an error.
GenerateNeverRaises ==
    \A t \in Threads :
       (pc[t] = "done" /\ args[t].palette_type \in ListedRules /\ args[t].count >= 1)
          => result[t].ok

\* C4: for every harmony rule and count >= 1, generate returns a palette
\* that has the base colour at index 0 and at least count entries.
PaletteStartsWithBase ==
    \A t \in Threads :
       (pc[t] = "done" /\ args[t].count >= 1)
          => /\ result[t].ok
             /\ Len(result[t].val) >= args[t].count
             /\ result[t].val[1] = args[t].base_color

-----------------------------------------------------------------------------
(* Properties of GradientGenerator.linear under SpecGradient *)

\* C5: for at least 2 colours and steps >= 1, the last entry of the list
\* linear returns is exactly the last input colour.
LinearEndsInLastColor ==
    (call.fn = "linear" /\ Len(call.colors) >= 2 /\ call.steps >= 1)
       => /\ call.out.ok
          /\ Len(call.out.val) >= 1
          /\ call.out.val[Len(call.out.val)] = call.colors[Len(call.colors)]

\* C6: for at least 2 colours and steps >= 1, linear returns exactly steps
\* entries.
LinearHasStepsEntries ==
    (call.fn = "linear" /\ Len(call.colors) >= 2 /\ call.steps >= 1)
       => call.out.ok /\ Len(call.out.val) = call.steps

\* C9: generate with count <= 0 and linear with steps <= 0 end in an error;
\* neither returns a palette or gradient and generate appends no record.
NonPositiveCountsRejected ==
    /\ \A t \in Threads :
          (pc[t] = "done" /\ args[t].count <= 0) => ~result[t].ok
    /\ Len(history) <=
          Cardinality({t \in Threads : pc[t] = "done" /\ args[t].count >= 1})
    /\ (call.fn = "linear" /\ call.steps <= 0) => ~call.out.ok

-----------------------------------------------------------------------------
(* Properties of Color.from_hex under SpecHex *)

\* one optional leading '#', then exactly 6 or exactly 8 hexadecimal digits
WellFormedHex(text) ==
    LET body == IF text # <<>> /\ Head(text) = "#" THEN Tail(text) ELSE text
    IN  /\ Len(body) \in {6, 8}
        /\ \A i \in 1..Len(body) : body[i] \in HexDigitSet

\* C7: from_hex ends in an error, and returns no Color, for every string
\* that is not one optional '#' followed by exactly 6 or 8 hex digits.
MalformedHexRejected ==
    (call.fn = "from_hex" /\ ~WellFormedHex(call.hex_in)) => ~call.out.ok

-----------------------------------------------------------------------------
(* Properties of the Color operations under SpecColor *)

\* the WCAG table as the specification prints it, in tenths
TableThreshold(level, size) ==
    CASE level = AA /\ size = normal -> 45
      [] level = AA /\ size = large -> 30
      [] level = AAA /\ size = normal -> 70
      [] level = AAA /\ size = large -> 45

AdjustedComponent ==
    IF call.fn \in {"lighten", "darken"} THEN call.handed[4] ELSE call.handed[3]

\* C10: the HSL component that lighten, darken, saturate or desaturate
\* adjusts is within [0, 1] when the new Color is derived from it.
AdjustedComponentClamped ==
    call.fn \in {"lighten", "darken", "saturate", "desaturate"}
       => (0 <= AdjustedComponent /\ AdjustedComponent <= FP)


\* C11: every Color that from_rgb builds from any three integers has RGB
\* channels in [0, 255], HSV/HSL saturation, value and lightness in [0, 1],
\* and HSV and HSL fields derived from the clamped channels its RGB holds.
FromRgbConsistent ==
    call.fn = "from_rgb" =>
       /\ call.out.ok
       /\ LET c == call.out.val
              clamped == from_rgb(c.rgb.r, c.rgb.g, c.rgb.b, <<>>, FP)
          IN  /\ {c.rgb.r, c.rgb.g, c.rgb.b} \subseteq 0..RGB_MAX
              /\ {c.hsv.s, c.hsv.v, c.hsl.s, c.hsl.l} \subseteq 0..FP
              /\ clamped.ok
              /\ c.hsv = clamped.val.hsv
              /\ c.hsl = clamped.val.hsl


\* C12: for every non-empty colour list and size >= 1, radial returns a
\* size x size grid in which every cell holds a colour: the index computed
\* for each cell is a valid index of linear(colors, radius + 1).
RadialFillsGrid ==
    (call.fn = "radial" /\ Len(call.colors) >= 1 /\ call.size >= 1)
       => /\ call.out.ok
          /\ Len(call.out.val) = call.size
          /\ \A y \in 1..Len(call.out.val) :
                /\ Len(call.out.val[y]) = call.size
                /\ \A x \in 1..call.size :
                      LET c == call.out.val[y][x].rgb
                      IN  {c.r, c.g, c.b} \subseteq 0..RGB_MAX


-----------------------------------------------------------------------------
(* Properties of the generator's lock under FairSpec *)

\* C13: the lock is released on every exit from generate, by return or by an
\* error: the lock is never held by a thread that is outside the body of
\* generate, and under fair scheduling every thread that calls generate
\* eventually acquires the lock and finishes its call.
LockReleasedOnEveryExit ==
    /\ [](\A t \in Threads : lock = t => pc[t] \in InBody)
    /\ \A t \in Threads : (pc[t] = "acquire") ~> (pc[t] = "done")

\* C13 witness: one call has ended in an error, and a second thread has
\* acquired the lock after it and is inside generate.
LockReleasedOnEveryExitWitness ==
    \E t, u \in Threads :
       /\ t # u
       /\ pc[t] = "done" /\ ~result[t].ok
       /\ lock = u /\ pc[u] \in InBody
       /\ calls = 2

====
